---- MODULE Spec2Model ----
(***************************************************************************)
(* A model of ppq/quantization/quantizer/base.py (class BaseQuantizer):    *)
(*   - create_optim_pipeline_from_setting: the settings tree -> pass list  *)
(*   - quantize_operations: platform assignment, config initialisation and *)
(*     the rewrite of plain operations into QuantableOperations            *)
(***************************************************************************)
EXTENDS Integers, Sequences, FiniteSets, TLC

VARIABLES
    setting,            \* the QuantizationSetting handed to the pipeline builder
    pipeline,           \* outcome of create_optim_pipeline_from_setting
    operations,         \* self._graph.operations: name (insertion index) -> operation
    target_platform,    \* the profile's target_platform property
    default_platform,   \* the profile's default_platform property
    call,               \* the last quantize_operations call: arguments, graph before, outcome
    rewrites,           \* per operation, how many QuantizeOperationCommand were issued for it
    builder_args,       \* the arguments handed to create_default_quant_config
    built_config,       \* what create_default_quant_config returned for them
    quantizer,          \* outcome of BaseQuantizer.__init__
    run,                \* the quantize call: graph before, steps taken, outcome
    report_out          \* the counts of the last report()

vars == <<setting, pipeline, operations, target_platform, default_platform, call, rewrites,
          builder_args, built_config, quantizer, run, report_out>>

pipelineVars == <<setting, pipeline>>
graphVars == <<operations, target_platform, default_platform, call, rewrites>>
configVars == <<builder_args, built_config>>
quantizeVars == <<quantizer, run, report_out>>

(***************************************************************************)
(* Bounds                                                                  *)
(***************************************************************************)
NumOps == 2          \* operations in the graph
MaxRewrites == 2     \* cap of the per-operation rewrite counter
MaxArity == 2        \* most inputs, and most outputs, of an operation meta

(***************************************************************************)
(* Pipeline builder: create_optim_pipeline_from_setting                    *)
(***************************************************************************)
CalibAlgorithms == {"minmax", "kl"}

FusionSettings ==
    [refine_quantization : BOOLEAN, remove_useless_quantization : BOOLEAN,
     fuse_activation : BOOLEAN, fuse_conv_add : BOOLEAN]

ParameterSettings ==
    [baking_parameter : BOOLEAN, quantize_passive_parameter : BOOLEAN]

ActivationSettings ==
    [calib_algorithm : CalibAlgorithms, per_layer_calibration : BOOLEAN,
     inplace_act_quantization : BOOLEAN]

QuantizationSetting ==
    [equalization : BOOLEAN, ssd_equalization : BOOLEAN,
     fusion : BOOLEAN, fusion_setting : FusionSettings,
     quantize_parameter : BOOLEAN, quantize_parameter_setting : ParameterSettings,
     quantize_activation : BOOLEAN, quantize_activation_setting : ActivationSettings,
     advanced_optimization : BOOLEAN, extension : BOOLEAN]

\* A pass instance: its class, and the constructor arguments the builder
\* derives from the settings (method, override, fuse_activation).
Pass(name) ==
    [name |-> name, method |-> "none", override |-> FALSE, fuse_activation |-> FALSE]

CalibrationPass(name, method, override) ==
    [name |-> name, method |-> method, override |-> override, fuse_activation |-> FALSE]

FusionPass(fuse_activation) ==
    [name |-> "QuantizeFusion", method |-> "none", override |-> FALSE,
     fuse_activation |-> fuse_activation]

\* lines 223-233
EqualizationStage(s) ==
    IF s.equalization THEN <<Pass("LayerwiseEqualization")>> ELSE <<>>

\* lines 235-243
SSDEqualizationStage(s) ==
    IF s.ssd_equalization THEN <<Pass("SSDEqualization")>> ELSE <<>>

\* FusionStage with the fusion pass appended before the reduce pass.
FusionStageSwapped(s) ==
    IF s.fusion
    THEN (IF s.fusion_setting.refine_quantization THEN <<Pass("QuantizeRefine")>> ELSE <<>>)
         \o <<FusionPass(s.fusion_setting.fuse_activation)>>
         \o (IF s.fusion_setting.remove_useless_quantization
             THEN <<Pass("QuantizeReduce")>> ELSE <<>>)
         \o (IF s.fusion_setting.fuse_conv_add
             THEN <<Pass("PPLCudaAddConvReluMerge")>> ELSE <<>>)
    ELSE <<>>

\* lines 245-261
FusionStage(s) ==
    IF s.fusion
    THEN (IF s.fusion_setting.refine_quantization THEN <<Pass("QuantizeRefine")>> ELSE <<>>)
         \o (IF s.fusion_setting.remove_useless_quantization
             THEN <<Pass("QuantizeReduce")>> ELSE <<>>)
         \o <<FusionPass(s.fusion_setting.fuse_activation)>>
         \o (IF s.fusion_setting.fuse_conv_add
             THEN <<Pass("PPLCudaAddConvReluMerge")>> ELSE <<>>)
    ELSE <<>>

\* lines 263-270
ParameterStage(s) ==
    IF s.quantize_parameter
    THEN <<Pass("ParameterQuantize")>>
         \o (IF s.quantize_parameter_setting.baking_parameter
             THEN <<Pass("ParameterBaking")>> ELSE <<>>)
    ELSE <<>>

\* lines 272-282
ActivationStage(s) ==
    IF s.quantize_activation
    THEN (IF s.quantize_activation_setting.per_layer_calibration
          THEN <<CalibrationPass("RuntimePerlayerCalibration",
                                 s.quantize_activation_setting.calib_algorithm, FALSE)>>
          ELSE <<CalibrationPass("RuntimeCalibration",
                                 s.quantize_activation_setting.calib_algorithm, FALSE)>>)
         \o (IF s.quantize_activation_setting.inplace_act_quantization
             THEN <<Pass("InplaceQuantizationSetting")>> ELSE <<>>)
    ELSE <<>>

\* lines 284-287
PassiveParameterStage(s) ==
    IF s.quantize_parameter /\ s.quantize_parameter_setting.quantize_passive_parameter
    THEN <<Pass("PassiveParameterQuantize")>> ELSE <<>>

\* The local act_setting is bound only by line 273, inside the
\* `if setting.quantize_activation` block.
ActSettingBound(s) == s.quantize_activation

\* lines 289-305: line 305 reads the local act_setting; when it was never
\* bound, Python raises UnboundLocalError there.
AdvancedStageRaises(s) == s.advanced_optimization /\ ~ActSettingBound(s)

\* AdvancedStage recalibrating with the variant the first calibration used.
AdvancedStagePerLayer(s) ==
    IF s.advanced_optimization
    THEN <<Pass("AdvancedQuantOptimization"),
           CalibrationPass(IF s.quantize_activation_setting.per_layer_calibration
                           THEN "RuntimePerlayerCalibration" ELSE "RuntimeCalibration",
                           s.quantize_activation_setting.calib_algorithm, TRUE)>>
    ELSE <<>>

\* lines 289-305
AdvancedStage(s) ==
    IF s.advanced_optimization
    THEN <<Pass("AdvancedQuantOptimization"),
           CalibrationPass("RuntimeCalibration",
                           s.quantize_activation_setting.calib_algorithm, TRUE)>>
    ELSE <<>>

\* lines 307-310
RebakingStage(s) ==
    IF s.quantize_parameter /\ s.quantize_parameter_setting.baking_parameter
    THEN <<Pass("ParameterBaking")>> ELSE <<>>

\* lines 312-314
ExtensionStage(s) ==
    IF s.extension THEN <<Pass("Extension")>> ELSE <<>>

NotBuilt == [status |-> "not built", passes |-> <<>>]

\* lines 214-316: the value returned (status "ok", the pipeline's passes), or
\* the exception that leaves the function (nothing is returned).
create_optim_pipeline_from_setting(s) ==
    IF AdvancedStageRaises(s)
    THEN [status |-> "UnboundLocalError", passes |-> <<>>]
    ELSE [status |-> "ok",
          passes |-> EqualizationStage(s) \o SSDEqualizationStage(s) \o FusionStage(s)
                     \o ParameterStage(s) \o ActivationStage(s)
                     \o PassiveParameterStage(s) \o AdvancedStage(s)
                     \o RebakingStage(s) \o ExtensionStage(s)]

(***************************************************************************)
(* Graph, operations and the quantizer profile                             *)
(***************************************************************************)
Platforms == {"UNSPECIFIED", "FP32", "INT8"}

\* TargetPlatform.is_quantized_platform (ppq.core): the quantized platforms
\* are told apart from UNSPECIFIED and from the fp32 pass-through platforms.
is_quantized_platform(platform) == platform = "INT8"

Types == {"Conv", "Relu"}

\* self._graph.operations is a dict: its iteration order is the insertion
\* order, here the index of the operation.
OpNames == 1 .. NumOps

NoMeta == [traced |-> FALSE, num_of_input |-> 0, num_of_output |-> 0]

\* What executor.tracing_operation_meta records for an operation of a type.
TracedMeta(type) ==
    IF type = "Conv"
    THEN [traced |-> TRUE, num_of_input |-> 2, num_of_output |-> 1]
    ELSE [traced |-> TRUE, num_of_input |-> 1, num_of_output |-> 1]

\* QuantizationStates (ppq.core): the lifecycle of a tensor config.
QuantizationStates ==
    {"UNINITIALIZED", "INITIAL", "ACTIVATED", "BAKED", "PASSIVE", "DEACTIVATED"}

\* QuantizationStates.can_export (ppq.core): the terminal states.
can_export(state) == state \in {"ACTIVATED", "BAKED", "PASSIVE", "DEACTIVATED"}

\* TensorQuantizationConfig(...) as line 157 constructs it (ppq.core): the
\* state is not passed and starts as uninitialized.
TensorQuantizationConfig(policy, rounding, num_of_bits, scale, offset, quant_min, quant_max, observer_algorithm) ==
    [policy |-> policy, rounding |-> rounding, num_of_bits |-> num_of_bits,
     scale |-> scale, offset |-> offset, quant_min |-> quant_min,
     quant_max |-> quant_max, observer_algorithm |-> observer_algorithm,
     state |-> "UNINITIALIZED"]

\* lines 163-166: OperationQuantizationConfig(input_quantization_configs=...,
\* output_quantization_configs=...); origin records who made it.
OperationQuantizationConfig(origin, input_quantization_configs, output_quantization_configs) ==
    [origin |-> origin,
     input_quantization_config |-> input_quantization_configs,
     output_quantization_config |-> output_quantization_configs]

\* Python's configs[lo:hi] for 0 <= lo, hi: 0-based, hi excluded, both cut
\* down to the length of the list.
Slice(configs, lo, hi) ==
    LET stop == IF hi > Len(configs) THEN Len(configs) ELSE hi
    IN  [k \in 1 .. (IF stop > lo THEN stop - lo ELSE 0) |-> configs[lo + k]]

\* create_default_quant_config cutting the outputs one entry late.
create_default_quant_config_late(operation_meta, num_of_bits, quant_min, quant_max, observer_algorithm, policy, rounding) ==
    LET num_of_related_vars == operation_meta.num_of_input + operation_meta.num_of_output
        configs == [k \in 1 .. num_of_related_vars |->
                       TensorQuantizationConfig(policy, rounding, num_of_bits, "None",
                           "None", quant_min, quant_max, observer_algorithm)]
    IN  OperationQuantizationConfig("create_default_quant_config",
            Slice(configs, 0, operation_meta.num_of_input + 1),
            Slice(configs, operation_meta.num_of_input + 1, num_of_related_vars))

\* lines 150-166
create_default_quant_config(operation_meta, num_of_bits, quant_min, quant_max, observer_algorithm, policy, rounding) ==
    LET num_of_related_vars == operation_meta.num_of_input + operation_meta.num_of_output
        configs == [k \in 1 .. num_of_related_vars |->
                       TensorQuantizationConfig(policy, rounding, num_of_bits, "None",
                           "None", quant_min, quant_max, observer_algorithm)]
    IN  OperationQuantizationConfig("create_default_quant_config",
            Slice(configs, 0, operation_meta.num_of_input),
            Slice(configs, operation_meta.num_of_input, num_of_related_vars))

NoConfig == OperationQuantizationConfig("none", <<>>, <<>>)

\* A config written by the caller of quantize_operations: one input entry
\* and one output entry.
CallerConfig ==
    LET entry == TensorQuantizationConfig("SYMMETRICAL", "ROUND_HALF_EVEN", 8, "None",
                                          "None", -128, 127, "minmax")
    IN  OperationQuantizationConfig("caller", <<entry>>, <<entry>>)

\* lines 168-170: abstract here, supplied by the hardware profile; it returns
\* a config with one entry per traced input and output, built by the
\* reference builder from the profile's policy and rounding.
init_quantize_config(operation_meta, operation_type) ==
    [create_default_quant_config(operation_meta, 8, -128, 127, "percentile",
                                 "SYMMETRICAL", "ROUND_HALF_EVEN")
        EXCEPT !.origin = "init_quantize_config"]

PlainOperation(type, platform) ==
    [type |-> type, platform |-> platform, meta_data |-> NoMeta,
     quantable |-> FALSE, config |-> NoConfig]

\* The processor chain's handling of QuantizeOperationCommand: the named
\* operation is replaced in place by a QuantableOperation that carries the
\* command's platform and config.
quantize_operation(ops, op_name, platform, config) ==
    [ops EXCEPT ![op_name] =
        [@ EXCEPT !.quantable = TRUE, !.platform = platform, !.config = config]]

(***************************************************************************)
(* quantize_operations                                                     *)
(***************************************************************************)
\* AssignedPlatform with the type test ahead of the predefined-platform test.
AssignedPlatformTypeFirst(operation, types) ==
    IF operation.type \in types THEN target_platform
    ELSE IF operation.platform # "UNSPECIFIED" THEN operation.platform
    ELSE default_platform

\* lines 94-98: the entry stored in operation_platforms for an operation;
\* each of the three branches stores one, whatever the dict held before.
AssignedPlatform(operation, types) ==
    IF operation.platform # "UNSPECIFIED" THEN operation.platform
    ELSE IF operation.type \in types THEN target_platform
    ELSE default_platform

\* lines 92-98: operation_platforms after the first loop ("absent": no key).
build_operation_platforms(ops, types, seed) ==
    [op_name \in OpNames |->
        LET stored == [seed EXCEPT ![op_name] = AssignedPlatform(ops[op_name], types)]
        IN  stored[op_name]]

\* lines 100-102: the dict entry is written back onto the operation.
write_back_platforms(ops, platforms) ==
    [op_name \in OpNames |->
        IF platforms[op_name] # "absent"
        THEN [ops[op_name] EXCEPT !.platform = platforms[op_name]]
        ELSE ops[op_name]]

\* A step of a call, in the order the steps are taken (op_name 0: no operation).
Event(stage, op_name) == [stage |-> stage, op_name |-> op_name]

\* lines 100-102: the platform writes of the first loop, one per operation.
platform_events(platforms) ==
    [op_name \in OpNames |-> Event("platform", op_name)]

\* MissingMetaData with the test of line 112 left out.
MissingMetaDataUnchecked(operation) == FALSE

\* line 112: operation.meta_data is None
MissingMetaData(operation) == ~operation.meta_data.traced

\* HasConfig blind to what the caller supplied.
HasConfigIgnored(configs, op_name) == FALSE

\* line 116: op_name in operation_quantization_configs
HasConfig(configs, op_name) == configs[op_name].origin # "none"

\* lines 108-120: operation_quantization_configs after the second loop, from
\* the i-th operation on, or the ValueError raised at the first quantized
\* operation without meta data; log lists the configs built, in order.
RECURSIVE build_operation_configs(_, _, _, _, _, _)
build_operation_configs(i, ops, types, platforms, configs, log) ==
    IF i > NumOps THEN [result |-> "ok", configs |-> configs, log |-> log]
    ELSE IF ~is_quantized_platform(platforms[i])
         THEN build_operation_configs(i + 1, ops, types, platforms, configs, log)
    ELSE IF MissingMetaData(ops[i])
         THEN [result |-> "ValueError", configs |-> configs, log |-> log]
    ELSE IF ops[i].type \in types /\ ~HasConfig(configs, i)
         THEN build_operation_configs(i + 1, ops, types, platforms,
                  [configs EXCEPT ![i] = init_quantize_config(ops[i].meta_data, ops[i].type)],
                  Append(log, Event("config", i)))
    ELSE build_operation_configs(i + 1, ops, types, platforms, configs, log)

\* AlreadyQuantized with the isinstance test left out.
AlreadyQuantizedIgnored(operation) == FALSE

\* line 127: isinstance(operation, QuantableOperation)
AlreadyQuantized(operation) == operation.quantable

\* lines 140-144
QuantizeOperationCommand(op_name, platform, config) ==
    [op_name |-> op_name, target_platform |-> platform, config |-> config]

\* lines 122-147: the third loop, from the i-th operation on; log lists the
\* commands issued and the platform writes of line 147, in order.
RECURSIVE mutate_graph(_, _, _, _, _, _)
mutate_graph(i, ops, platforms, configs, commands, log) ==
    IF i > NumOps
    THEN [result |-> "ok", operations |-> ops, commands |-> commands, log |-> log]
    ELSE IF AlreadyQuantized(ops[i])
         THEN [result |-> "TypeError", operations |-> ops, commands |-> commands,
               log |-> log]
    ELSE IF is_quantized_platform(platforms[i])
         THEN IF configs[i].origin = "none"
              THEN [result |-> "KeyError", operations |-> ops, commands |-> commands,
                    log |-> log]
              ELSE mutate_graph(i + 1,
                       quantize_operation(ops, i, platforms[i], configs[i]),
                       platforms, configs,
                       Append(commands, QuantizeOperationCommand(i, platforms[i], configs[i])),
                       Append(log, Event("command", i)))
    ELSE mutate_graph(i + 1, [ops EXCEPT ![i].platform = platforms[i]],
                      platforms, configs, commands, Append(log, Event("platform", i)))

\* lines 81-147: the graph left behind, the commands issued and how the call
\* ended ("ok", or the exception that left it).
quantize_operations(ops, types, operation_platforms, operation_quantization_configs) ==
    LET platforms == build_operation_platforms(ops, types, operation_platforms)
        assigned  == write_back_platforms(ops, platforms)
        built     == build_operation_configs(1, assigned, types, platforms,
                                             operation_quantization_configs,
                                             platform_events(platforms))
    IN  IF built.result # "ok"
        THEN [result |-> built.result, operations |-> assigned, commands |-> <<>>,
              platforms |-> platforms, configs |-> built.configs, log |-> built.log]
        ELSE LET done == mutate_graph(1, assigned, platforms, built.configs, <<>>,
                                      built.log)
             IN  [result |-> done.result, operations |-> done.operations,
                  commands |-> done.commands,
                  platforms |-> platforms, configs |-> built.configs, log |-> done.log]

(***************************************************************************)
(* State machine                                                           *)
(***************************************************************************)
NoPlatforms == [op_name \in OpNames |-> "absent"]
NoConfigs == [op_name \in OpNames |-> NoConfig]

\* Arguments a caller may pass to quantize_operations: any set of types and
\* at most one of the two optional mappings, naming one operation.
TypeArgs == SUBSET Types
PlatformArgs ==
    {[NoPlatforms EXCEPT ![op_name] = platform] :
        op_name \in OpNames, platform \in Platforms \ {"UNSPECIFIED"}}
ConfigArgs == {[NoConfigs EXCEPT ![op_name] = CallerConfig] : op_name \in OpNames}
OptionalArgs ==
    {<<NoPlatforms, NoConfigs>>}
    \cup {<<operation_platforms, NoConfigs>> : operation_platforms \in PlatformArgs}
    \cup {<<NoPlatforms, operation_quantization_configs>> :
             operation_quantization_configs \in ConfigArgs}

NoCall ==
    [result |-> "none", types |-> {}, operation_platforms |-> NoPlatforms,
     operation_quantization_configs |-> NoConfigs, before |-> <<>>,
     platforms |-> NoPlatforms, configs |-> NoConfigs, commands |-> <<>>]

\* No quantize call has been made.
NoRun ==
    [result |-> "none", types |-> {}, before |-> <<>>, after_pipeline |-> <<>>,
     optimized |-> FALSE, log |-> <<>>]

\* lines 199-200: the counters report() starts from.
NoReport ==
    [reported |-> FALSE, quantized_op_cnt |-> 0, tensor_cfg_cnt |-> 0,
     tensor_cfg_detail |-> [state \in QuantizationStates |-> 0]]

\* Arguments of a create_default_quant_config call that are of no interest.
NoBuilderArgs ==
    [operation_meta |-> NoMeta, num_of_bits |-> 8, quant_min |-> -128, quant_max |-> 127,
     observer_algorithm |-> "minmax", policy |-> "SYMMETRICAL",
     rounding |-> "ROUND_HALF_EVEN"]

DefaultSetting ==
    [equalization |-> FALSE, ssd_equalization |-> FALSE, fusion |-> FALSE,
     fusion_setting |-> [refine_quantization |-> FALSE,
                         remove_useless_quantization |-> FALSE,
                         fuse_activation |-> FALSE, fuse_conv_add |-> FALSE],
     quantize_parameter |-> FALSE,
     quantize_parameter_setting |-> [baking_parameter |-> FALSE,
                                     quantize_passive_parameter |-> FALSE],
     quantize_activation |-> FALSE,
     quantize_activation_setting |-> [calib_algorithm |-> "minmax",
                                      per_layer_calibration |-> FALSE,
                                      inplace_act_quantization |-> FALSE],
     advanced_optimization |-> FALSE, extension |-> FALSE]

\* lines 21-33: a quantizer constructed over a graph of plain operations.
Init ==
    /\ operations \in [OpNames -> {PlainOperation(t, p) : t \in Types, p \in Platforms}]
    /\ target_platform \in Platforms
    /\ default_platform \in Platforms
    /\ call = NoCall
    /\ rewrites = [op_name \in OpNames |-> 0]
    /\ setting = DefaultSetting
    /\ pipeline = NotBuilt
    /\ builder_args = NoBuilderArgs
    /\ built_config = NoConfig
    /\ quantizer = "ready"
    /\ run = NoRun
    /\ report_out = NoReport

\* line 50: executor.tracing_operation_meta fills in every operation's meta data.
TraceOperationMeta ==
    /\ call.result = "none"
    /\ \E op_name \in OpNames : ~operations[op_name].meta_data.traced
    /\ operations' = [op_name \in OpNames |->
                         [operations[op_name] EXCEPT
                             !.meta_data = TracedMeta(operations[op_name].type)]]
    /\ UNCHANGED <<target_platform, default_platform, call, rewrites, pipelineVars,
                   configVars, quantizeVars>>

CommandsFor(commands, op_name) ==
    Cardinality({k \in 1 .. Len(commands) : commands[k].op_name = op_name})

\* lines 81-147: one call of quantize_operations, run to its return or raise.
QuantizeOperations ==
    /\ call.result = "none"
    /\ \A op_name \in OpNames : rewrites[op_name] < MaxRewrites
    /\ \E types \in TypeArgs, optional \in OptionalArgs :
          LET operation_platforms == optional[1]
              operation_quantization_configs == optional[2]
          IN  \E r \in {quantize_operations(operations, types, operation_platforms,
                                            operation_quantization_configs)} :
              /\ operations' = r.operations
              /\ call' = [result |-> r.result, types |-> types,
                          operation_platforms |-> operation_platforms,
                          operation_quantization_configs |-> operation_quantization_configs,
                          before |-> operations, platforms |-> r.platforms,
                          configs |-> r.configs, commands |-> r.commands]
              /\ rewrites' = [op_name \in OpNames |->
                                 rewrites[op_name] + CommandsFor(r.commands, op_name)]
    /\ UNCHANGED <<target_platform, default_platform, pipelineVars, configVars,
                   quantizeVars>>

\* The call's frame is dropped: its arguments and locals are gone, the graph stays.
ReturnToCaller ==
    /\ call.result # "none"
    /\ call' = NoCall
    /\ UNCHANGED <<operations, target_platform, default_platform, rewrites, pipelineVars,
                   configVars, quantizeVars>>

Next == TraceOperationMeta \/ QuantizeOperations \/ ReturnToCaller

Spec == Init /\ [][Next]_vars

\* The pipeline builder on its own: any settings tree, one build.
InitPipeline ==
    /\ setting \in QuantizationSetting
    /\ pipeline = NotBuilt
    /\ operations = [op_name \in OpNames |-> PlainOperation("Conv", "UNSPECIFIED")]
    /\ target_platform = "INT8"
    /\ default_platform = "FP32"
    /\ call = NoCall
    /\ rewrites = [op_name \in OpNames |-> 0]
    /\ builder_args = NoBuilderArgs
    /\ built_config = NoConfig
    /\ quantizer = "ready"
    /\ run = NoRun
    /\ report_out = NoReport

\* lines 57-58: self._graph_optimize_pipeline = create_optim_pipeline_from_setting(...)
CreateOptimPipeline ==
    /\ pipeline.status = "not built"
    /\ pipeline' = create_optim_pipeline_from_setting(setting)
    /\ UNCHANGED <<setting, graphVars, configVars, quantizeVars>>

NextPipeline == CreateOptimPipeline

SpecPipeline == InitPipeline /\ [][NextPipeline]_vars

(***************************************************************************)
(* quantize and report                                                     *)
(***************************************************************************)
\* line 50: executor.tracing_operation_meta fills in every operation's meta data.
tracing_operation_meta(ops) ==
    [op_name \in OpNames |->
        [ops[op_name] EXCEPT !.meta_data = TracedMeta(ops[op_name].type)]]

\* The setting argument of quantize: a QuantizationSetting, or an object of
\* another class (value is then of no interest).
SettingArgs ==
    {[is_setting |-> TRUE, value |-> value] :
        value \in {DefaultSetting,
                   [DefaultSetting EXCEPT !.quantize_parameter = TRUE,
                                          !.quantize_activation = TRUE],
                   [DefaultSetting EXCEPT !.advanced_optimization = TRUE]}}
    \cup {[is_setting |-> FALSE, value |-> DefaultSetting]}

\* lines 214-219 and on: the assert on the class of setting, then the builder.
create_optim_pipeline(arg) ==
    IF ~arg.is_setting
    THEN [status |-> "AssertionError", passes |-> <<>>]
    ELSE create_optim_pipeline_from_setting(arg.value)

\* What running the passes may do: nothing when there is no pass; else one
\* of them raises, or they move the input tensor configs, the output tensor
\* configs or both to one state.
PipelineOutcomes(passes) ==
    IF passes = <<>>
    THEN {[raises |-> FALSE, scope |-> {}, state |-> "UNINITIALIZED"]}
    ELSE {[raises |-> TRUE, scope |-> {}, state |-> "UNINITIALIZED"]}
         \cup [raises : {FALSE},
               scope : {{"input"}, {"output"}, {"input", "output"}},
               state : QuantizationStates]

SetStates(configs, state) ==
    [k \in 1 .. Len(configs) |-> [configs[k] EXCEPT !.state = state]]

\* lines 60-67: QuantizationOptimizationPipeline.optimize (ppq.quantization.optim)
\* when no pass raises; an empty pass list leaves the graph as it is.
optimize(ops, passes, outcome) ==
    IF passes = <<>> THEN ops
    ELSE [op_name \in OpNames |->
             IF ops[op_name].quantable
             THEN [ops[op_name] EXCEPT
                      !.config.input_quantization_config =
                          IF "input" \in outcome.scope
                          THEN SetStates(@, outcome.state) ELSE @,
                      !.config.output_quantization_config =
                          IF "output" \in outcome.scope
                          THEN SetStates(@, outcome.state) ELSE @]
             ELSE ops[op_name]]

\* PostCheckRaises with the test in force.
PostCheckRaisesInForce(config) == can_export(config.state)

\* line 74: QuantizationStates.can_export(config.state) and False
PostCheckRaises(config) == can_export(config.state) /\ FALSE

\* lines 72-73: input_quantization_config + output_quantization_config
TensorConfigs(operation) ==
    operation.config.input_quantization_config
        \o operation.config.output_quantization_config

\* lines 69-78: the post-pipeline loop over the tensor configs.
post_check(ops) ==
    IF \E op_name \in OpNames :
          /\ ops[op_name].quantable
          /\ \E k \in 1 .. Len(TensorConfigs(ops[op_name])) :
                 PostCheckRaises(TensorConfigs(ops[op_name])[k])
    THEN "RuntimeError"
    ELSE "ok"

\* ReloadGraph left out.
ReloadGraphSkipped == <<>>

\* line 56: executor.load_graph(self._graph) after the graph was rewritten
ReloadGraph == <<Event("load_graph", 0)>>

\* lines 45-78: the graph left behind, the steps taken in order, the pipeline
\* stored and how the call ended ("ok", or the exception that left it).
quantize(ops, types, arg, outcome) ==
    LET traced == tracing_operation_meta(ops)
        head == <<Event("load_graph", 0), Event("tracing_operation_meta", 0)>>
        q == quantize_operations(traced, types, NoPlatforms, NoConfigs)
        built == create_optim_pipeline(arg)
        log == head \o q.log \o ReloadGraph \o <<Event("create_optim_pipeline", 0)>>
        optimized == optimize(q.operations, built.passes, outcome)
    IN  IF q.result # "ok"
        THEN [result |-> q.result, operations |-> q.operations, commands |-> q.commands,
              log |-> head \o q.log, building |-> FALSE, pipeline |-> NotBuilt,
              optimized |-> FALSE, after_pipeline |-> <<>>]
        ELSE IF built.status # "ok"
        THEN [result |-> built.status, operations |-> q.operations,
              commands |-> q.commands, log |-> log, building |-> TRUE,
              pipeline |-> NotBuilt, optimized |-> FALSE, after_pipeline |-> <<>>]
        ELSE IF built.passes # <<>> /\ outcome.raises
        THEN [result |-> "PassError", operations |-> q.operations,
              commands |-> q.commands, log |-> Append(log, Event("optimize", 0)),
              building |-> TRUE, pipeline |-> built, optimized |-> FALSE,
              after_pipeline |-> <<>>]
        ELSE [result |-> post_check(optimized), operations |-> optimized,
              commands |-> q.commands,
              log |-> log \o <<Event("optimize", 0), Event("post_check", 0)>>,
              building |-> TRUE, pipeline |-> built, optimized |-> TRUE,
              after_pipeline |-> optimized]

\* lines 197-212, the input and output tensor configs of one operation
\* counted into detail, from the k-th on.
RECURSIVE count_states(_, _, _)
count_states(configs, k, detail) ==
    IF k > Len(configs) THEN detail
    ELSE count_states(configs, k + 1,
                      [detail EXCEPT ![configs[k].state] = @ + 1])

\* report counting only the input tensor configs.
RECURSIVE report_inputs_only(_, _, _)
report_inputs_only(ops, i, counts) ==
    IF i > NumOps THEN [counts EXCEPT !.reported = TRUE]
    ELSE IF ops[i].quantable
         THEN report_inputs_only(ops, i + 1,
                  [counts EXCEPT
                      !.quantized_op_cnt = @ + 1,
                      !.tensor_cfg_cnt = @ + Len(ops[i].config.input_quantization_config),
                      !.tensor_cfg_detail =
                          count_states(ops[i].config.input_quantization_config, 1, @)])
         ELSE report_inputs_only(ops, i + 1, counts)

\* lines 197-212: the counters of report(), from the i-th operation on.
RECURSIVE report(_, _, _)
report(ops, i, counts) ==
    IF i > NumOps THEN [counts EXCEPT !.reported = TRUE]
    ELSE IF ops[i].quantable
         THEN report(ops, i + 1,
                  [counts EXCEPT
                      !.quantized_op_cnt = @ + 1,
                      !.tensor_cfg_cnt = @ + Len(TensorConfigs(ops[i])),
                      !.tensor_cfg_detail = count_states(TensorConfigs(ops[i]), 1, @)])
         ELSE report(ops, i + 1, counts)

\* A graph and a profile before any quantizer was constructed.
InitQuantize ==
    /\ operations \in [OpNames -> {PlainOperation(t, p) : t \in Types, p \in Platforms}]
    /\ target_platform \in Platforms
    /\ default_platform \in Platforms
    /\ call = NoCall
    /\ rewrites = [op_name \in OpNames |-> 0]
    /\ setting = DefaultSetting
    /\ pipeline = NotBuilt
    /\ builder_args = NoBuilderArgs
    /\ built_config = NoConfig
    /\ quantizer = "none"
    /\ run = NoRun
    /\ report_out = NoReport

\* lines 21-33: the constructor, given a BaseGraph or something else.
Construct ==
    /\ quantizer = "none"
    /\ \E is_base_graph \in BOOLEAN :
          quantizer' = IF is_base_graph THEN "ready" ELSE "TypeError"
    /\ UNCHANGED <<run, report_out, pipelineVars, graphVars, configVars>>

\* lines 36-78: the first quantize call of the quantizer, run to its return
\* or raise; quant_operation_types is what the profile's property yields.
Quantize ==
    /\ quantizer = "ready"
    /\ run.result = "none"
    /\ \E quant_operation_types \in TypeArgs, arg \in SettingArgs :
       \E outcome \in PipelineOutcomes(create_optim_pipeline(arg).passes) :
          \E r \in {quantize(operations, quant_operation_types, arg, outcome)} :
              /\ operations' = r.operations
              /\ run' = [result |-> r.result, types |-> quant_operation_types,
                         before |-> operations, after_pipeline |-> r.after_pipeline,
                         optimized |-> r.optimized, log |-> r.log]
              /\ pipeline' = r.pipeline
              /\ setting' = IF r.building /\ arg.is_setting THEN arg.value ELSE setting
              /\ rewrites' = [op_name \in OpNames |->
                                 rewrites[op_name] + CommandsFor(r.commands, op_name)]
    /\ UNCHANGED <<target_platform, default_platform, call, quantizer, report_out,
                   configVars>>

\* lines 197-212: report() on the graph a quantize call left behind.
Report ==
    /\ quantizer = "ready"
    /\ run.result # "none"
    /\ ~report_out.reported
    /\ report_out' = report(operations, 1, NoReport)
    /\ UNCHANGED <<quantizer, run, pipelineVars, graphVars, configVars>>

NextQuantize == Construct \/ Quantize \/ Report

SpecQuantize == InitQuantize /\ [][NextQuantize]_vars

(***************************************************************************)
(* create_default_quant_config on its own                                  *)
(***************************************************************************)
\* The arguments create_default_quant_config is applied to: every arity up
\* to MaxArity and two values of each parameter.
BuilderArgs ==
    [operation_meta : {[traced |-> TRUE, num_of_input |-> i, num_of_output |-> o] :
                          i \in 0 .. MaxArity, o \in 0 .. MaxArity},
     num_of_bits : {4, 8}, quant_min : {-128, 0}, quant_max : {127, 255},
     observer_algorithm : CalibAlgorithms,
     policy : {"SYMMETRICAL", "ASYMMETRICAL"},
     rounding : {"ROUND_HALF_EVEN", "ROUND_UP"}]

InitConfig ==
    /\ builder_args \in BuilderArgs
    /\ built_config = NoConfig
    /\ operations = [op_name \in OpNames |-> PlainOperation("Conv", "UNSPECIFIED")]
    /\ target_platform = "INT8"
    /\ default_platform = "FP32"
    /\ call = NoCall
    /\ rewrites = [op_name \in OpNames |-> 0]
    /\ setting = DefaultSetting
    /\ pipeline = NotBuilt
    /\ quantizer = "ready"
    /\ run = NoRun
    /\ report_out = NoReport

\* lines 150-166: one call of the static builder.
CreateDefaultQuantConfig ==
    /\ built_config = NoConfig
    /\ built_config' = create_default_quant_config(
                           builder_args.operation_meta, builder_args.num_of_bits,
                           builder_args.quant_min, builder_args.quant_max,
                           builder_args.observer_algorithm, builder_args.policy,
                           builder_args.rounding)
    /\ UNCHANGED <<builder_args, pipelineVars, graphVars, quantizeVars>>

NextConfig == CreateDefaultQuantConfig

SpecConfig == InitConfig /\ [][NextConfig]_vars

(***************************************************************************)
(* Claims about the pipeline builder (checked under SpecPipeline)          *)
(***************************************************************************)
Built == pipeline.status # "not built"

PassNames(passes) == [k \in 1 .. Len(passes) |-> passes[k].name]

IsOverrideCalibration(pass) ==
    pass.name \in {"RuntimeCalibration", "RuntimePerlayerCalibration"} /\ pass.override

\* The catalogue of section 4.4, steps 1-9, each entry with the toggles gating it.
C1_Catalogue(s) ==
    LET fusion == s.fusion_setting
        param == s.quantize_parameter_setting
        act == s.quantize_activation_setting
    IN << [name |-> "LayerwiseEqualization", override |-> FALSE, on |-> s.equalization],
          [name |-> "SSDEqualization", override |-> FALSE, on |-> s.ssd_equalization],
          [name |-> "QuantizeRefine", override |-> FALSE,
           on |-> s.fusion /\ fusion.refine_quantization],
          [name |-> "QuantizeReduce", override |-> FALSE,
           on |-> s.fusion /\ fusion.remove_useless_quantization],
          [name |-> "QuantizeFusion", override |-> FALSE, on |-> s.fusion],
          [name |-> "PPLCudaAddConvReluMerge", override |-> FALSE,
           on |-> s.fusion /\ fusion.fuse_conv_add],
          [name |-> "ParameterQuantize", override |-> FALSE, on |-> s.quantize_parameter],
          [name |-> "ParameterBaking", override |-> FALSE,
           on |-> s.quantize_parameter /\ param.baking_parameter],
          [name |-> "RuntimeCalibration", override |-> FALSE,
           on |-> s.quantize_activation /\ ~act.per_layer_calibration],
          [name |-> "RuntimePerlayerCalibration", override |-> FALSE,
           on |-> s.quantize_activation /\ act.per_layer_calibration],
          [name |-> "InplaceQuantizationSetting", override |-> FALSE,
           on |-> s.quantize_activation /\ act.inplace_act_quantization],
          [name |-> "PassiveParameterQuantize", override |-> FALSE,
           on |-> s.quantize_parameter /\ param.quantize_passive_parameter],
          [name |-> "AdvancedQuantOptimization", override |-> FALSE,
           on |-> s.advanced_optimization],
          [name |-> "RuntimeCalibration", override |-> TRUE, on |-> s.advanced_optimization],
          [name |-> "ParameterBaking", override |-> FALSE,
           on |-> s.quantize_parameter /\ param.baking_parameter],
          [name |-> "Extension", override |-> FALSE, on |-> s.extension] >>

C1_Enabled(entry) == entry.on

C1_Expected(s) ==
    LET kept == SelectSeq(C1_Catalogue(s), C1_Enabled)
    IN  [k \in 1 .. Len(kept) |-> [name |-> kept[k].name, override |-> kept[k].override]]

\* C1: for every combination of toggles the builder returns exactly the fixed
\* catalogue filtered by the toggles gating each entry, in catalogue order.
C1_ReturnsFilteredCatalogue ==
    Built =>
        /\ pipeline.status = "ok"
        /\ [k \in 1 .. Len(pipeline.passes) |->
               [name |-> pipeline.passes[k].name, override |-> pipeline.passes[k].override]]
           = C1_Expected(setting)

\* C2: whenever advanced_optimization is enabled, whatever the other toggles,
\* the returned list holds AdvancedQuantOptimization immediately followed by
\* an activation calibration pass in override mode.
C2_AdvancedThenOverrideCalibration ==
    (Built /\ setting.advanced_optimization) =>
        /\ pipeline.status = "ok"
        /\ \E k \in 1 .. Len(pipeline.passes) - 1 :
              /\ pipeline.passes[k].name = "AdvancedQuantOptimization"
              /\ IsOverrideCalibration(pipeline.passes[k + 1])

\* C3: with quantize_parameter, its baking_parameter and advanced_optimization
\* enabled, the produced list holds ParameterBaking, later
\* AdvancedQuantOptimization, then the override recalibration, then a second
\* ParameterBaking, in that relative order.
C3_BakeAdvancedRecalibrateBake ==
    (/\ Built
     /\ setting.quantize_parameter
     /\ setting.quantize_parameter_setting.baking_parameter
     /\ setting.advanced_optimization) =>
        /\ pipeline.status = "ok"
        /\ \E i, j, k, l \in 1 .. Len(pipeline.passes) :
              /\ i < j /\ j < k /\ k < l
              /\ pipeline.passes[i].name = "ParameterBaking"
              /\ pipeline.passes[j].name = "AdvancedQuantOptimization"
              /\ IsOverrideCalibration(pipeline.passes[k])
              /\ pipeline.passes[l].name = "ParameterBaking"

\* Settings in which fusion is on with only remove_useless_quantization and
\* fuse_activation set, and every other toggle is off.
C4_OnlyReduceAndFuse(s) ==
    /\ s.fusion
    /\ s.fusion_setting = [refine_quantization |-> FALSE,
                           remove_useless_quantization |-> TRUE,
                           fuse_activation |-> TRUE, fuse_conv_add |-> FALSE]
    /\ ~s.equalization /\ ~s.ssd_equalization
    /\ ~s.quantize_parameter
    /\ ~s.quantize_parameter_setting.baking_parameter
    /\ ~s.quantize_parameter_setting.quantize_passive_parameter
    /\ ~s.quantize_activation
    /\ ~s.quantize_activation_setting.per_layer_calibration
    /\ ~s.quantize_activation_setting.inplace_act_quantization
    /\ ~s.advanced_optimization /\ ~s.extension

\* C4: with only fusion.remove_useless_quantization and fusion.fuse_activation
\* enabled, the builder produces exactly [QuantizeReduce, QuantizeFusion].
C4_ReduceThenFusion ==
    (Built /\ C4_OnlyReduceAndFuse(setting)) =>
        /\ pipeline.status = "ok"
        /\ PassNames(pipeline.passes) = <<"QuantizeReduce", "QuantizeFusion">>
        /\ pipeline.passes[2].fuse_activation

\* The builder has run on exactly those settings and returned two passes.
C4_Witness ==
    /\ Built
    /\ C4_OnlyReduceAndFuse(setting)
    /\ Len(pipeline.passes) = 2

C5_Bakings(passes) == {k \in 1 .. Len(passes) : passes[k].name = "ParameterBaking"}

C5_BeforeRebake ==
    {"RuntimeCalibration", "RuntimePerlayerCalibration", "InplaceQuantizationSetting",
     "PassiveParameterQuantize", "AdvancedQuantOptimization"}

\* C5: with quantize_parameter and baking_parameter enabled the list holds
\* exactly two ParameterBaking passes, the first directly after
\* ParameterQuantize, the second after every calibration, passive-parameter
\* and advanced-optimization pass and before the extension pass, with or
\* without advanced_optimization; otherwise it holds no ParameterBaking pass.
C5_TwoBakings ==
    Built =>
        LET passes == pipeline.passes
            bakings == C5_Bakings(passes)
        IN  IF setting.quantize_parameter
               /\ setting.quantize_parameter_setting.baking_parameter
            THEN /\ pipeline.status = "ok"
                 /\ \E first, second \in bakings :
                       /\ first < second
                       /\ bakings = {first, second}
                       /\ first > 1
                       /\ passes[first - 1].name = "ParameterQuantize"
                       /\ \A k \in 1 .. Len(passes) :
                             /\ passes[k].name \in C5_BeforeRebake => k < second
                             /\ passes[k].name = "Extension" => second < k
            ELSE bakings = {}

(***************************************************************************)
(* Claims about quantize_operations (checked under Spec)                   *)
(***************************************************************************)
Called == call.result # "none"

C6_Untouched(op_name) ==
    /\ operations[op_name].platform = call.before[op_name].platform
    /\ operations[op_name].quantable = call.before[op_name].quantable
    /\ operations[op_name].config = call.before[op_name].config

\* C6: a call on a graph that already holds a QuantableOperation raises the
\* state error, and during that call no operation is converted and no
\* operation's platform or config changes.
C6_RequantizeFailsBeforeMutation ==
    (Called /\ \E op_name \in OpNames : call.before[op_name].quantable) =>
        /\ call.result = "TypeError"
        /\ call.commands = <<>>
        /\ \A op_name \in OpNames : C6_Untouched(op_name)

\* C7: over any sequence of calls, aborted ones included, no rewrite command
\* is issued for an operation that is already a QuantableOperation: an
\* operation is converted at most once and never reverts to a plain one.
C7_ConvertedAtMostOnce ==
    /\ [](\A op_name \in OpNames :
             /\ rewrites[op_name] <= 1
             /\ operations[op_name].quantable <=> rewrites[op_name] = 1)
    /\ [](Called =>
             \A k \in 1 .. Len(call.commands) :
                 ~call.before[call.commands[k].op_name].quantable)
    /\ [][\A op_name \in OpNames :
             operations[op_name].quantable => operations'[op_name].quantable]_vars

\* A later call met an operation converted by an earlier call and raised.
C7_Witness ==
    /\ call.result = "TypeError"
    /\ \E op_name \in OpNames :
          /\ call.before[op_name].quantable
          /\ operations[op_name].quantable
          /\ rewrites[op_name] = 1

\* C8: for every graph and every profile, after the platform-assignment stage
\* has run no operation is left with the platform UNSPECIFIED.
C8_NoUnspecifiedPlatform ==
    Called => \A op_name \in OpNames : operations[op_name].platform # "UNSPECIFIED"

C9_Precedence(operation, types) ==
    CASE operation.platform # "UNSPECIFIED" -> operation.platform
      [] operation.platform = "UNSPECIFIED" /\ operation.type \in types -> target_platform
      [] OTHER -> default_platform

\* C9: an operation that carries a platform other than UNSPECIFIED keeps it;
\* otherwise one of a quantizable type gets target_platform; otherwise it gets
\* default_platform. That platform is the operation's platform after the call
\* and the platform carried by its rewrite command.
C9_PlatformPrecedence ==
    Called =>
        /\ \A op_name \in OpNames :
              operations[op_name].platform =
                  C9_Precedence(call.before[op_name], call.types)
        /\ \A k \in 1 .. Len(call.commands) :
              call.commands[k].target_platform =
                  C9_Precedence(call.before[call.commands[k].op_name], call.types)

\* A call that issued a command while an operation of a quantizable type
\* kept its predefined FP32 platform.
C9_Witness ==
    /\ call.result = "ok"
    /\ call.commands # <<>>
    /\ \E op_name \in OpNames :
          /\ call.before[op_name].platform = "FP32"
          /\ call.before[op_name].type \in call.types
          /\ target_platform = "INT8"
          /\ operations[op_name].platform = "FP32"

\* C10: an operation whose platform was UNSPECIFIED and that the caller's
\* operation_platforms mapping names ends with the platform given in the
\* mapping, and that platform decides whether the operation is quantized.
C10_OverrideSeedsPlatform ==
    Called =>
        \A op_name \in OpNames :
            (/\ call.before[op_name].platform = "UNSPECIFIED"
             /\ call.operation_platforms[op_name] # "absent") =>
                /\ operations[op_name].platform = call.operation_platforms[op_name]
                /\ call.result = "ok" =>
                      (operations[op_name].quantable <=>
                          is_quantized_platform(call.operation_platforms[op_name]))

\* The number of tensor configs an operation config holds.
NumOfConfigs(config) ==
    Len(config.input_quantization_config) + Len(config.output_quantization_config)

\* C11: whenever a call gets as far as the third loop, every operation whose
\* assigned platform is quantized, whatever its type and wherever the
\* platform came from, has a config, has had its rewrite command issued and
\* is a QuantableOperation.
C11_QuantizedPlatformIsConverted ==
    (Called /\ call.result \notin {"ValueError", "TypeError"}) =>
        \A op_name \in OpNames :
            is_quantized_platform(call.platforms[op_name]) =>
                /\ call.configs[op_name] # NoConfig
                /\ CommandsFor(call.commands, op_name) = 1
                /\ operations[op_name].quantable

\* C12: after a call that completed, every operation of a quantizable type
\* on a quantized platform carries a config with as many tensor configs as
\* the operation has inputs and outputs, whoever made the config.
C12_ConfigLengthMatchesArity ==
    (Called /\ call.result = "ok") =>
        \A op_name \in OpNames :
            (/\ call.before[op_name].type \in call.types
             /\ is_quantized_platform(call.platforms[op_name])) =>
                NumOfConfigs(operations[op_name].config)
                    = operations[op_name].meta_data.num_of_input
                      + operations[op_name].meta_data.num_of_output

\* C14: a config the caller supplied for an operation on a quantized platform
\* is still the entry of that name after the second loop (so
\* init_quantize_config did not make it), is the config of every command
\* issued for the operation, and is the config the converted operation holds.
C14_SuppliedConfigWins ==
    Called =>
        \A op_name \in OpNames :
            (/\ call.operation_quantization_configs[op_name] = CallerConfig
             /\ is_quantized_platform(call.platforms[op_name])) =>
                LET supplied == call.operation_quantization_configs[op_name]
                IN  /\ call.configs[op_name] = supplied
                    /\ \A k \in 1 .. Len(call.commands) :
                           call.commands[k].op_name = op_name =>
                               call.commands[k].config = supplied
                    /\ call.result = "ok" =>
                           /\ CommandsFor(call.commands, op_name) = 1
                           /\ operations[op_name].config = supplied

\* A completed call that was given a config for a traced operation of a
\* quantizable type, and converted that operation.
C14_Witness ==
    /\ call.result = "ok"
    /\ \E op_name \in OpNames :
          /\ call.operation_quantization_configs[op_name] = CallerConfig
          /\ call.before[op_name].type \in call.types
          /\ call.before[op_name].meta_data.traced
          /\ is_quantized_platform(call.platforms[op_name])
          /\ CommandsFor(call.commands, op_name) = 1

\* An operation of a quantizable type that had no meta data when the call began.
C15_UntracedQuantizableType(op_name) ==
    /\ call.before[op_name].type \in call.types
    /\ ~call.before[op_name].meta_data.traced

\* C15 as written: a call that finds an operation of a quantizable type
\* without meta data ends in the meta data error with no command issued.
C15_UntracedTypeFails ==
    (Called /\ \E op_name \in OpNames : C15_UntracedQuantizableType(op_name)) =>
        /\ call.result = "ValueError"
        /\ call.commands = <<>>

\* C15: a call that finds an operation of a quantizable type on a quantized
\* platform without meta data ends in the meta data error, with no command
\* issued and no operation converted.
C15_UntracedQuantizedFails ==
    (/\ Called
     /\ \E op_name \in OpNames :
           /\ C15_UntracedQuantizableType(op_name)
           /\ is_quantized_platform(call.platforms[op_name])) =>
        /\ call.result = "ValueError"
        /\ call.commands = <<>>
        /\ \A op_name \in OpNames :
               operations[op_name].quantable = call.before[op_name].quantable

\* A call that ended in the meta data error because of such an operation.
C15_Witness ==
    /\ call.result = "ValueError"
    /\ \E op_name \in OpNames :
          /\ C15_UntracedQuantizableType(op_name)
          /\ is_quantized_platform(call.platforms[op_name])

\* C13: the config create_default_quant_config returns has as many input
\* entries as the meta has inputs and as many output entries as it has
\* outputs, for every arity from zero up, and every entry carries the
\* arguments given, no scale, no offset and the uninitialized state.
C13_DefaultConfigShape ==
    built_config # NoConfig =>
        LET entry == [policy |-> builder_args.policy, rounding |-> builder_args.rounding,
                      num_of_bits |-> builder_args.num_of_bits,
                      scale |-> "None", offset |-> "None",
                      quant_min |-> builder_args.quant_min,
                      quant_max |-> builder_args.quant_max,
                      observer_algorithm |-> builder_args.observer_algorithm,
                      state |-> "UNINITIALIZED"]
            inputs == built_config.input_quantization_config
            outputs == built_config.output_quantization_config
        IN  /\ Len(inputs) = builder_args.operation_meta.num_of_input
            /\ Len(outputs) = builder_args.operation_meta.num_of_output
            /\ \A k \in 1 .. Len(inputs) : inputs[k] = entry
            /\ \A k \in 1 .. Len(outputs) : outputs[k] = entry

\* The builder has returned for an operation of two inputs and one output.
C13_Witness ==
    /\ built_config # NoConfig
    /\ builder_args.operation_meta.num_of_input = 2
    /\ builder_args.operation_meta.num_of_output = 1
    /\ Len(built_config.input_quantization_config) = 2
    /\ Len(built_config.output_quantization_config) = 1

Ran == run.result # "none"

\* C16: an error of construction leaves the graph as it was: after the
\* constructor refused its argument no quantize call has run and no
\* operation is converted, and after quantize refused a setting of the wrong
\* class every operation has the platform it had before the call and no
\* operation was converted by the call.
C16_ConstructionErrorsBeforeWork ==
    /\ quantizer = "TypeError" =>
           /\ ~Ran
           /\ \A op_name \in OpNames :
                  ~operations[op_name].quantable /\ rewrites[op_name] = 0
    /\ run.result = "AssertionError" =>
           \A op_name \in OpNames :
               /\ operations[op_name].platform = run.before[op_name].platform
               /\ operations[op_name].quantable = run.before[op_name].quantable

\* C17: once the pipeline has run without error, quantize returns normally
\* whatever the states of the tensor configs, and the graph is the one the
\* pipeline left.
C17_PostCheckNeverFails ==
    run.optimized =>
        /\ run.result = "ok"
        /\ operations = run.after_pipeline

\* quantize returned over a graph holding a tensor config in a state that
\* can be exported and one in a state that cannot.
C17_Witness ==
    /\ run.optimized
    /\ run.result = "ok"
    /\ \E op_name \in OpNames :
          /\ operations[op_name].quantable
          /\ \E k \in 1 .. Len(TensorConfigs(operations[op_name])) :
                 can_export(TensorConfigs(operations[op_name])[k].state)
          /\ \E k \in 1 .. Len(TensorConfigs(operations[op_name])) :
                 ~can_export(TensorConfigs(operations[op_name])[k].state)

RECURSIVE C18_Sum(_, _)
C18_Sum(f, S) ==
    IF S = {} THEN 0
    ELSE LET x == CHOOSE x \in S : TRUE
         IN  f[x] + C18_Sum(f, S \ {x})

C18_Quantable == {op_name \in OpNames : operations[op_name].quantable}

\* The tensor configs of the QuantableOperations that are in a state.
C18_InState(state) ==
    C18_Sum([op_name \in OpNames |->
                Cardinality({k \in 1 .. Len(TensorConfigs(operations[op_name])) :
                                TensorConfigs(operations[op_name])[k].state = state})],
            C18_Quantable)

\* C18: the per-state counts of a report add up to the number of tensor
\* configs, inputs and outputs, of the QuantableOperations, each per-state
\* count is the number of those configs in that state, and the operation
\* count is the number of QuantableOperations; plain operations add nothing.
C18_ReportCountsAddUp ==
    report_out.reported =>
        /\ report_out.quantized_op_cnt = Cardinality(C18_Quantable)
        /\ report_out.tensor_cfg_cnt =
               C18_Sum([op_name \in OpNames |-> NumOfConfigs(operations[op_name].config)],
                       C18_Quantable)
        /\ C18_Sum(report_out.tensor_cfg_detail, QuantizationStates)
               = report_out.tensor_cfg_cnt
        /\ \A state \in QuantizationStates :
               report_out.tensor_cfg_detail[state] = C18_InState(state)

\* A report over a graph with a QuantableOperation, a plain operation and
\* tensor configs in two different states.
C18_Witness ==
    /\ report_out.reported
    /\ C18_Quantable # {}
    /\ C18_Quantable # OpNames
    /\ Cardinality({state \in QuantizationStates :
                       report_out.tensor_cfg_detail[state] > 0}) = 2

C19_At(stage) == {k \in 1 .. Len(run.log) : run.log[k].stage = stage}

\* C19: in the steps of every quantize call, tracing comes before every
\* platform write; every operation has its platform written before any
\* config is built; every config is built before any command is issued; the
\* graph is loaded again after the last command and before the pipeline is
\* built; the pipeline runs at most once, after it was built; the loop of
\* lines 69-78 comes after the pipeline ran.
C19_StagesInOrder ==
    Ran =>
        /\ \A i \in C19_At("platform") :
               \E j \in C19_At("tracing_operation_meta") : j < i
        /\ \A i \in C19_At("config") : \A op_name \in OpNames :
               \E j \in 1 .. i - 1 : run.log[j] = Event("platform", op_name)
        /\ \A i \in C19_At("command") : \A j \in C19_At("config") : j < i
        /\ \A i \in C19_At("create_optim_pipeline") :
               \E j \in C19_At("load_graph") :
                   /\ j < i
                   /\ \A k \in C19_At("command") : k < j
        /\ Cardinality(C19_At("optimize")) <= 1
        /\ \A i \in C19_At("optimize") :
               \E j \in C19_At("create_optim_pipeline") : j < i
        /\ \A i \in C19_At("post_check") :
               \E j \in C19_At("optimize") : j < i

\* A quantize call that built a config, issued a command, ran the pipeline
\* and the post-pipeline loop, and returned.
C19_Witness ==
    /\ run.result = "ok"
    /\ C19_At("config") # {}
    /\ C19_At("command") # {}
    /\ C19_At("optimize") # {}
    /\ C19_At("post_check") # {}

C20_At(name) == {k \in 1 .. Len(pipeline.passes) : pipeline.passes[k].name = name}

\* C20: in every returned list each AdvancedQuantOptimization is directly
\* followed by a whole-network RuntimeCalibration pass in override mode with
\* the calib_algorithm of the activation settings; with quantize_activation,
\* per_layer_calibration and advanced_optimization enabled the list is
\* returned and holds one RuntimePerlayerCalibration, before
\* AdvancedQuantOptimization, and one RuntimeCalibration, right after it.
C20_RecalibrationIsWholeNetwork ==
    Built =>
        /\ pipeline.status = "ok" =>
               \A k \in C20_At("AdvancedQuantOptimization") :
                   /\ k < Len(pipeline.passes)
                   /\ pipeline.passes[k + 1] =
                          CalibrationPass("RuntimeCalibration",
                              setting.quantize_activation_setting.calib_algorithm, TRUE)
        /\ (/\ setting.quantize_activation
            /\ setting.quantize_activation_setting.per_layer_calibration
            /\ setting.advanced_optimization) =>
               /\ pipeline.status = "ok"
               /\ Cardinality(C20_At("RuntimePerlayerCalibration")) = 1
               /\ Cardinality(C20_At("RuntimeCalibration")) = 1
               /\ \A i \in C20_At("RuntimePerlayerCalibration") :
                      \A k \in C20_At("AdvancedQuantOptimization") :
                          /\ i < k
                          /\ ~pipeline.passes[i].override
                          /\ C20_At("RuntimeCalibration") = {k + 1}

\* A list built with the three toggles enabled.
C20_Witness ==
    /\ pipeline.status = "ok"
    /\ setting.quantize_activation
    /\ setting.quantize_activation_setting.per_layer_calibration
    /\ setting.advanced_optimization
    /\ C20_At("RuntimePerlayerCalibration") # {}
    /\ C20_At("AdvancedQuantOptimization") # {}

====
